---- MODULE Spec2Model ----
(***************************************************************************)
(* Model of the todo REST API: the todos table (migrations/init.sql), the  *)
(* TodoRepository operations (internal/repository/todo_repository.go) and  *)
(* the TodoHandler handlers (internal/handlers/todo_handler.go).           *)
(*                                                                         *)
(* Every SQL statement is one atomic step.  A handler that issues one      *)
(* statement is one action; UpdateTodo issues two statements (the SELECT   *)
(* of GetByID, then the UPDATE) with no transaction around them, so it is  *)
(* two actions and other requests may run in between.                      *)
(*                                                                         *)
(* A Go pointer and a nullable column are sequences of length at most 1:   *)
(* <<>> is nil / NULL and <<v>> is a pointer to v / the value v.           *)
(* Timestamps are integers in the resolution of the TIMESTAMP columns.     *)
(* The database connection is assumed healthy: no statement fails with a   *)
(* communication error.                                                    *)
(***************************************************************************)
EXTENDS Integers, Sequences, FiniteSets, TLC

\* ---- bounds ----
MaxId == 4
MaxReqs == 2
MaxTime == 1
NumWorkers == 2

\* ---- program constants ----
SeedCount == 3

StatusOK == 200
StatusCreated == 201
StatusNoContent == 204
StatusBadRequest == 400
StatusNotFound == 404
StatusInternalServerError == 500

Workers == 1..NumWorkers

\* strings a request body may carry for title / description
Strings == {"", "x"}

\* ids a request path may carry: a completed seed row, an open seed row and
\* the ids Create can assign
ReqIds == {1, 2} \cup ((SeedCount + 1)..MaxId)

\* ---- request paths ----

\* a path segment is a sequence of characters
Digits == {"0", "1", "2", "3", "4", "5", "6", "7", "8", "9"}

DigitVal ==
    ("0" :> 0) @@ ("1" :> 1) @@ ("2" :> 2) @@ ("3" :> 3) @@ ("4" :> 4) @@
    ("5" :> 5) @@ ("6" :> 6) @@ ("7" :> 7) @@ ("8" :> 8) @@ ("9" :> 9)

DigitChar == <<"1", "2", "3", "4", "5", "6", "7", "8", "9">>

RECURSIVE Itoa(_)
\* the decimal digits of a natural number
Itoa(n) ==
    IF n < 10
    THEN <<IF n = 0 THEN "0" ELSE DigitChar[n]>>
    ELSE Append(Itoa(n \div 10), IF n % 10 = 0 THEN "0" ELSE DigitChar[n % 10])

\* a digit string too long for any int64
TooBig == [i \in 1..20 |-> "9"]

\* id segments a request path may carry: the decimal form of the ids, a word,
\* a negative number and a number beyond int64
PathSegs == {Itoa(id) : id \in ReqIds} \cup {<<"a", "b", "c">>, <<"-", "1">>, TooBig}

\* mutant: the route is declared as /todos/{id}, without a pattern
MatchesIdPattern_Any(seg) == Len(seg) >= 1

\* the route pattern {id:[0-9]+}: one or more digits and nothing else
MatchesIdPattern(seg) ==
    /\ Len(seg) >= 1
    /\ \A i \in 1..Len(seg) : seg[i] \in Digits

\* the digits of the largest int64, 2^63 - 1
MaxInt64Digits ==
    <<"9", "2", "2", "3", "3", "7", "2", "0", "3", "6", "8", "5", "4", "7", "7", "5", "8", "0", "7">>

RECURSIVE StripZeros(_)
StripZeros(d) ==
    IF Len(d) > 1 /\ d[1] = "0" THEN StripZeros(Tail(d)) ELSE d

\* whether the number written by the digits d is greater than the one written by m
DigitsGreater(d, m) ==
    LET a == StripZeros(d)
        b == StripZeros(m)
    IN  \/ Len(a) > Len(b)
        \/ /\ Len(a) = Len(b)
           /\ \E i \in 1..Len(a) :
                 /\ \A j \in 1..(i - 1) : a[j] = b[j]
                 /\ DigitVal[a[i]] > DigitVal[b[i]]

RECURSIVE DigitsValue(_)
DigitsValue(d) ==
    IF d = <<>> THEN 0 ELSE 10 * DigitsValue(SubSeq(d, 1, Len(d) - 1)) + DigitVal[d[Len(d)]]

\* strconv.ParseInt(s, 10, 64): an optional sign, then one or more digits, the
\* value within int64; err otherwise.  (The magnitude 2^63 that only a
\* negative number may have is not among the inputs.)
ParseInt(seg) ==
    LET signed == Len(seg) >= 1 /\ seg[1] \in {"+", "-"}
        neg == Len(seg) >= 1 /\ seg[1] = "-"
        d == IF signed THEN Tail(seg) ELSE seg
    IN  IF d = <<>> \/ (\E i \in 1..Len(d) : d[i] \notin Digits)
        THEN [ok |-> FALSE, val |-> 0]
        ELSE IF DigitsGreater(d, MaxInt64Digits)
        THEN [ok |-> FALSE, val |-> 0]
        ELSE [ok |-> TRUE, val |-> IF neg THEN 0 - DigitsValue(d) ELSE DigitsValue(d)]

Nil == <<>>

Ptr(v) == <<v>>

\* a JSON field of a request body: omitted, or present with a value
OptString == {Nil} \cup {Ptr(s) : s \in Strings}

OptBool == {Nil} \cup {Ptr(b) : b \in BOOLEAN}

Bodies == [title : OptString, description : OptString, completed : OptBool]

VARIABLES
    todos,    \* the todos table: id -> row, for the ids that have a row
    seq,      \* last value handed out by the SERIAL sequence of todos.id
    dbNow,    \* the storage engine's clock, NOW()
    appNow,   \* the application process's clock, time.Now()
    pc,       \* per worker: "idle", or "update_write" between the two statements of Update
    req,      \* per worker: the id and decoded body of its latest Update
    cur,      \* per worker: currentTodo, as read by the Update in flight
    resp,     \* per worker: the last response written
    last,     \* history: the last handler step (worker, operation, id, row before it)
    prev,     \* history: the handler step before the last one
    nreq      \* history: number of requests started

vars == <<todos, seq, dbNow, appNow, pc, req, cur, resp, last, prev, nreq>>

\* ---- migrations/init.sql ----

SeedTime == 0

SeedRows ==
    (1 :> [id |-> 1, title |-> "Learn Go", description |-> "Study Go programming language basics",
           completed |-> TRUE, created_at |-> SeedTime, updated_at |-> SeedTime,
           completed_at |-> <<SeedTime>>])
    @@
    (2 :> [id |-> 2, title |-> "Build a REST API", description |-> "Create a Todo API using Go and PostgreSQL",
           completed |-> FALSE, created_at |-> SeedTime, updated_at |-> SeedTime,
           completed_at |-> <<>>])
    @@
    (3 :> [id |-> 3, title |-> "Learn Docker", description |-> "Learn how to containerize applications",
           completed |-> FALSE, created_at |-> SeedTime, updated_at |-> SeedTime,
           completed_at |-> <<>>])

\* ---- models ----

\* json.Decode into CreateTodoRequest: Title and Description are plain strings,
\* an omitted field keeps the zero value ""
DecodeCreateTodoRequest(body) ==
    [Title |-> IF body.title = Nil THEN "" ELSE body.title[1],
     Description |-> IF body.description = Nil THEN "" ELSE body.description[1]]

\* json.Decode into UpdateTodoRequest: every field is a pointer, nil when omitted
DecodeUpdateTodoRequest(body) ==
    [Title |-> body.title, Description |-> body.description, Completed |-> body.completed]

\* ---- repository ----

\* Scan of a nullable timestamp column into sql.NullTime
ScanNullTime(col) ==
    [Valid |-> col # <<>>, Time |-> IF col # <<>> THEN col[1] ELSE 0]

\* Scan of a result row into models.Todo, CompletedAt set only when Valid
ScanTodo(row) ==
    LET completedAt == ScanNullTime(row.completed_at)
    IN  [ID |-> row.id, Title |-> row.title, Description |-> row.description,
         Completed |-> row.completed, CreatedAt |-> row.created_at,
         UpdatedAt |-> row.updated_at,
         CompletedAt |-> IF completedAt.Valid THEN Ptr(completedAt.Time) ELSE Nil]

\* mutant: updated_at is stamped from the application's clock
InsertRow_UpdatedAtFromApp(title, description) ==
    [id |-> seq + 1, title |-> title, description |-> description,
     completed |-> FALSE, created_at |-> dbNow, updated_at |-> appNow,
     completed_at |-> <<>>]

\* mutant: the id is the lowest one not in use
InsertRow_ReusesFreeId(title, description) ==
    [id |-> CHOOSE i \in 1..(seq + 1) :
                /\ i \notin DOMAIN todos
                /\ \A j \in 1..(i - 1) : j \in DOMAIN todos,
     title |-> title, description |-> description,
     completed |-> FALSE, created_at |-> dbNow, updated_at |-> dbNow,
     completed_at |-> <<>>]

\* INSERT INTO todos (title, description, created_at, updated_at)
\* VALUES ($1, $2, NOW(), NOW()): id from the sequence, completed from its
\* DEFAULT FALSE, completed_at NULL
InsertRow(title, description) ==
    [id |-> seq + 1, title |-> title, description |-> description,
     completed |-> FALSE, created_at |-> dbNow, updated_at |-> dbNow,
     completed_at |-> <<>>]

\* mutant: the description column is not scanned
GetByID_SkipsDescription(id) ==
    IF id \in DOMAIN todos
    THEN Ptr([ScanTodo(todos[id]) EXCEPT !.Description = ""])
    ELSE Nil

\* GetByID: nil when the SELECT has no row (sql.ErrNoRows), else the scanned row
GetByID(id) ==
    IF id \in DOMAIN todos THEN Ptr(ScanTodo(todos[id])) ELSE Nil

\* the orders in which a SELECT with the given ORDER BY test may deliver the
\* rows: every arrangement of all rows that respects it (rows that tie come in
\* any order)
RowOrders(Before(_, _)) ==
    LET n == Cardinality(DOMAIN todos)
    IN  {s \in [1..n -> DOMAIN todos] :
            /\ \A i, j \in 1..n : i # j => s[i] # s[j]
            /\ \A i, j \in 1..n : i < j => ~Before(todos[s[j]], todos[s[i]])}

\* mutant: ORDER BY created_at ASC
OrderByCreatedAtDesc_Asc ==
    LET Before(a, b) == a.created_at < b.created_at
    IN  RowOrders(Before)

\* ORDER BY created_at DESC
OrderByCreatedAtDesc ==
    LET Before(a, b) == a.created_at > b.created_at
    IN  RowOrders(Before)

\* a Go slice: nil, or a sequence of elements
NilSlice == [isNil |-> TRUE, elems |-> <<>>]

\* append(slice, x)
AppendSlice(slice, x) == [isNil |-> FALSE, elems |-> Append(slice.elems, x)]

RECURSIVE ScanRows(_, _, _)
\* the rows.Next() loop of GetAll from row i on: scan the row, append it
ScanRows(order, i, slice) ==
    IF i > Len(order)
    THEN slice
    ELSE ScanRows(order, i + 1, AppendSlice(slice, ScanTodo(todos[order[i]])))

\* GetAll: var todos []*models.Todo, then one append per row delivered
GetAll(order) == ScanRows(order, 1, NilSlice)

\* mutant: a provided empty title is taken for an omitted one
UpdateTitle_EmptyIsAbsent(currentTodo, todo) ==
    IF todo.Title # Nil /\ todo.Title[1] # "" THEN todo.Title[1] ELSE currentTodo.Title

\* mutant: an omitted title is taken for an empty one
UpdateTitle_AbsentIsEmpty(currentTodo, todo) ==
    IF todo.Title # Nil THEN todo.Title[1] ELSE ""

\* Update, "Prepare update values": title
UpdateTitle(currentTodo, todo) ==
    IF todo.Title # Nil THEN todo.Title[1] ELSE currentTodo.Title

UpdateDescription(currentTodo, todo) ==
    IF todo.Description # Nil THEN todo.Description[1] ELSE currentTodo.Description

\* mutant: the comparison with the current value is dropped
UpdateToggles_IgnoresCurrent(currentTodo, todo) ==
    todo.Completed # Nil

\* whether the payload toggles completed, relative to the row as read
UpdateToggles(currentTodo, todo) ==
    todo.Completed # Nil /\ todo.Completed[1] # currentTodo.Completed

\* mutant: completedAt is not cleared when completed turns false
UpdateCompletedAt_KeepsOnClear(currentTodo, todo, now) ==
    IF UpdateToggles(currentTodo, todo) /\ todo.Completed[1]
    THEN Ptr(now)
    ELSE currentTodo.CompletedAt

\* mutant: an omitted completed is taken for false
UpdateCompleted_AbsentIsFalse(currentTodo, todo) ==
    IF todo.Completed # Nil THEN todo.Completed[1] ELSE FALSE

UpdateCompleted(currentTodo, todo) ==
    IF UpdateToggles(currentTodo, todo) THEN todo.Completed[1] ELSE currentTodo.Completed

\* completedAt: time.Now() when turning true, nil when turning false, else as read
UpdateCompletedAt(currentTodo, todo, now) ==
    IF UpdateToggles(currentTodo, todo)
    THEN IF todo.Completed[1] THEN Ptr(now) ELSE Nil
    ELSE currentTodo.CompletedAt

\* mutant: Valid is never set, the parameter is always NULL
NullTimeParam_NeverValid(completedAt) == <<>>

\* the sql.NullTime parameter built from completedAt, as the column value it stores
NullTimeParam(completedAt) ==
    LET nullCompletedAt == IF completedAt # Nil
                           THEN [Valid |-> TRUE, Time |-> completedAt[1]]
                           ELSE [Valid |-> FALSE, Time |-> 0]
    IN  IF nullCompletedAt.Valid THEN <<nullCompletedAt.Time>> ELSE <<>>

\* mutant: the statement also sets created_at = NOW()
UpdateRow_SetsCreatedAt(row, title, description, completed, completedAt) ==
    [row EXCEPT !.title = title, !.description = description,
                !.completed = completed, !.completed_at = NullTimeParam(completedAt),
                !.updated_at = dbNow, !.created_at = dbNow]

\* UPDATE todos SET title, description, completed, completed_at, updated_at = NOW()
\* WHERE id = $5: the row after the statement
UpdateRow(row, title, description, completed, completedAt) ==
    [row EXCEPT !.title = title, !.description = description,
                !.completed = completed, !.completed_at = NullTimeParam(completedAt),
                !.updated_at = dbNow]

\* ---- handlers ----

NoReq == [id |-> 0, todo |-> DecodeUpdateTodoRequest([title |-> Nil, description |-> Nil, completed |-> Nil])]

\* no JSON list in the body
NoList == [kind |-> "none", items |-> <<>>]

NoResp == [op |-> "none", status |-> 0, todo |-> Nil, list |-> NoList]

\* a response: the handler that wrote it, the status and the Todo of a JSON body
Respond(op, status, todo) == [op |-> op, status |-> status, todo |-> todo, list |-> NoList]

\* json.Encode of a []*Todo: a nil slice is written as null, any other slice as
\* an array of its elements
EncodeTodos(slice) ==
    IF slice.isNil
    THEN [kind |-> "null", items |-> <<>>]
    ELSE [kind |-> "array", items |-> slice.elems]

\* the response of GetAllTodos: respondWithJSON(w, 200, todos)
RespondList(status, slice) ==
    [op |-> "getall", status |-> status, todo |-> Nil, list |-> EncodeTodos(slice)]

\* the row of id before a step, NULL-style: <<>> when there is none
RowOf(id) == IF id \in DOMAIN todos THEN <<todos[id]>> ELSE <<>>

Step(w, op, id) == [w |-> w, op |-> op, id |-> id, before |-> RowOf(id)]

NoStep == [w |-> 0, op |-> "none", id |-> 0, before |-> <<>>]

Init ==
    /\ todos = SeedRows
    /\ seq = SeedCount
    /\ dbNow = SeedTime
    /\ appNow = SeedTime
    /\ pc = [w \in Workers |-> "idle"]
    /\ req = [w \in Workers |-> NoReq]
    /\ cur = [w \in Workers |-> Nil]
    /\ resp = [w \in Workers |-> NoResp]
    /\ last = NoStep
    /\ prev = NoStep
    /\ nreq = 0

\* The server runs each request in a goroutine of its own; goroutines have no
\* identity, so a new request is given to the lowest-numbered free worker.
Accepts(w) ==
    /\ pc[w] = "idle"
    /\ \A v \in Workers : v < w => pc[v] # "idle"
    /\ nreq < MaxReqs

\* GetTodo: GET /todos/{id}
GetTodo(w, id) ==
    /\ Accepts(w)
    /\ LET todo == GetByID(id)
       IN  resp' = [resp EXCEPT ![w] = IF todo = Nil
                                       THEN Respond("get", StatusNotFound, Nil)
                                       ELSE Respond("get", StatusOK, todo)]
    /\ last' = Step(w, "get", id)
    /\ prev' = last
    /\ nreq' = nreq + 1
    /\ UNCHANGED <<todos, seq, dbNow, appNow, pc, req, cur>>

\* the router finds no route for the path: mux answers 404, no handler runs
NoRoute(w, method, seg) ==
    /\ Accepts(w)
    /\ resp' = [resp EXCEPT ![w] = Respond("router", StatusNotFound, Nil)]
    /\ last' = Step(w, method, 0)
    /\ prev' = last
    /\ nreq' = nreq + 1
    /\ UNCHANGED <<todos, seq, dbNow, appNow, pc, req, cur>>

\* GetTodo, UpdateTodo, DeleteTodo: strconv.ParseInt fails on the id, 400
InvalidID(w, handler, seg) ==
    /\ Accepts(w)
    /\ resp' = [resp EXCEPT ![w] = Respond(handler, StatusBadRequest, Nil)]
    /\ last' = Step(w, "invalid_id", 0)
    /\ prev' = last
    /\ nreq' = nreq + 1
    /\ UNCHANGED <<todos, seq, dbNow, appNow, pc, req, cur>>

\* GET /api/v1/todos/{id:[0-9]+} as routed: a free goroutine takes the request
\* and the router dispatches on the id segment
GetRequest(w, seg) ==
    \/ /\ Accepts(w)
       /\ ~MatchesIdPattern(seg)
       /\ NoRoute(w, "GET", seg)
    \/ /\ Accepts(w)
       /\ MatchesIdPattern(seg)
       /\ ~ParseInt(seg).ok
       /\ InvalidID(w, "get", seg)
    \/ /\ Accepts(w)
       /\ MatchesIdPattern(seg)
       /\ ParseInt(seg).ok
       /\ GetTodo(w, ParseInt(seg).val)

\* mutant: the title is not validated
TitleMissing_Never(r) == FALSE

\* CreateTodo, "Validate request": the title is required
TitleMissing(r) == r.Title = ""

\* CreateTodo: POST /todos, the body does not decode
CreateTodoUndecodable(w) ==
    /\ Accepts(w)
    /\ resp' = [resp EXCEPT ![w] = Respond("create", StatusBadRequest, Nil)]
    /\ last' = Step(w, "create_undecodable", 0)
    /\ prev' = last
    /\ nreq' = nreq + 1
    /\ UNCHANGED <<todos, seq, dbNow, appNow, pc, req, cur>>

\* CreateTodo: POST /todos, title missing or empty
CreateTodoInvalid(w, body) ==
    /\ Accepts(w)
    /\ TitleMissing(DecodeCreateTodoRequest(body))
    /\ resp' = [resp EXCEPT ![w] = Respond("create", StatusBadRequest, Nil)]
    /\ last' = Step(w, "create_invalid", 0)
    /\ prev' = last
    /\ nreq' = nreq + 1
    /\ UNCHANGED <<todos, seq, dbNow, appNow, pc, req, cur>>

\* CreateTodo: POST /todos, valid request, repo.Create
CreateTodo(w, body) ==
    /\ Accepts(w)
    /\ seq < MaxId
    /\ LET r == DecodeCreateTodoRequest(body)
           row == InsertRow(r.Title, r.Description)
       IN  /\ ~TitleMissing(r)
           /\ todos' = (row.id :> row) @@ todos
           /\ seq' = row.id
           /\ resp' = [resp EXCEPT ![w] = Respond("create", StatusCreated, Ptr(ScanTodo(row)))]
           /\ last' = Step(w, "create", row.id)
    /\ prev' = last
    /\ nreq' = nreq + 1
    /\ UNCHANGED <<dbNow, appNow, pc, req, cur>>

\* POST /api/v1/todos with a body that decodes
CreateRequest(w, body) ==
    \/ CreateTodoInvalid(w, body)
    \/ CreateTodo(w, body)

\* UpdateTodo: PUT /todos/{id}, the id parses and the body does not decode
UpdateTodoUndecodable(w, id) ==
    /\ Accepts(w)
    /\ resp' = [resp EXCEPT ![w] = Respond("update", StatusBadRequest, Nil)]
    /\ last' = Step(w, "update_undecodable", id)
    /\ prev' = last
    /\ nreq' = nreq + 1
    /\ UNCHANGED <<todos, seq, dbNow, appNow, pc, req, cur>>

\* UpdateTodo: PUT /todos/{id}, up to and including the GetByID inside repo.Update
UpdateTodoRead(w, id, body) ==
    /\ Accepts(w)
    /\ LET currentTodo == GetByID(id)
       IN  /\ IF currentTodo = Nil
              THEN /\ resp' = [resp EXCEPT ![w] = Respond("update", StatusNotFound, Nil)]
                   /\ UNCHANGED pc
              ELSE /\ resp' = [resp EXCEPT ![w] = NoResp]
                   /\ pc' = [pc EXCEPT ![w] = "update_write"]
           /\ cur' = [cur EXCEPT ![w] = currentTodo]
    /\ req' = [req EXCEPT ![w] = [id |-> id, todo |-> DecodeUpdateTodoRequest(body)]]
    /\ last' = Step(w, "update_read", id)
    /\ prev' = last
    /\ nreq' = nreq + 1
    /\ UNCHANGED <<todos, seq, dbNow, appNow>>

\* GetAllTodos: GET /todos, with the rows in the order the SELECT delivers them
GetAllTodos(w) ==
    /\ Accepts(w)
    /\ \E order \in OrderByCreatedAtDesc :
          resp' = [resp EXCEPT ![w] = RespondList(StatusOK, GetAll(order))]
    /\ last' = Step(w, "getall", 0)
    /\ prev' = last
    /\ nreq' = nreq + 1
    /\ UNCHANGED <<todos, seq, dbNow, appNow, pc, req, cur>>

\* PUT /api/v1/todos/{id:[0-9]+} as routed, up to the read of Update
UpdateRequest(w, seg) ==
    \/ /\ Accepts(w)
       /\ ~MatchesIdPattern(seg)
       /\ NoRoute(w, "PUT", seg)
    \/ /\ Accepts(w)
       /\ MatchesIdPattern(seg)
       /\ ~ParseInt(seg).ok
       /\ InvalidID(w, "update", seg)
    \/ /\ Accepts(w)
       /\ MatchesIdPattern(seg)
       /\ ParseInt(seg).ok
       /\ UpdateTodoUndecodable(w, ParseInt(seg).val)
    \/ /\ Accepts(w)
       /\ MatchesIdPattern(seg)
       /\ ParseInt(seg).ok
       /\ \E body \in Bodies : UpdateTodoRead(w, ParseInt(seg).val, body)

\* mutant: the values are prepared from the row as it is at the write
CurrentTodo_AtWrite(w) ==
    IF req[w].id \in DOMAIN todos THEN ScanTodo(todos[req[w].id]) ELSE cur[w][1]

\* currentTodo of the Update in flight: the row as GetByID returned it
CurrentTodo(w) == cur[w][1]

\* UpdateTodo: the rest of repo.Update (prepare values, UPDATE ... RETURNING, Scan)
\* and the response.  When the UPDATE matches no row, Scan returns
\* sql.ErrNoRows, Update returns it as err and the handler answers 500.
UpdateTodoWrite(w) ==
    /\ pc[w] = "update_write"
    /\ LET id == req[w].id
           todo == req[w].todo
           currentTodo == CurrentTodo(w)
           title == UpdateTitle(currentTodo, todo)
           description == UpdateDescription(currentTodo, todo)
           completed == UpdateCompleted(currentTodo, todo)
           completedAt == UpdateCompletedAt(currentTodo, todo, appNow)
       IN  /\ IF id \in DOMAIN todos
              THEN LET row == UpdateRow(todos[id], title, description, completed, completedAt)
                   IN  /\ todos' = [todos EXCEPT ![id] = row]
                       /\ resp' = [resp EXCEPT ![w] = Respond("update", StatusOK, Ptr(ScanTodo(row)))]
              ELSE /\ todos' = todos
                   /\ resp' = [resp EXCEPT ![w] = Respond("update", StatusInternalServerError, Nil)]
           /\ last' = Step(w, "update_write", id)
    /\ prev' = last
    /\ pc' = [pc EXCEPT ![w] = "idle"]
    /\ cur' = [cur EXCEPT ![w] = Nil]
    /\ UNCHANGED <<seq, dbNow, appNow, req, nreq>>

\* mutant: the WHERE clause is missing
DeleteRow_NoWhere(id) == [i \in {} |-> todos[i]]

\* DELETE FROM todos WHERE id = $1: the table after the statement
DeleteRow(id) == [i \in DOMAIN todos \ {id} |-> todos[i]]

\* DeleteTodo: DELETE /todos/{id}; Exec reports no error when no row matches
DeleteTodo(w, id) ==
    /\ Accepts(w)
    /\ todos' = DeleteRow(id)
    /\ resp' = [resp EXCEPT ![w] = Respond("delete", StatusNoContent, Nil)]
    /\ last' = Step(w, "delete", id)
    /\ prev' = last
    /\ nreq' = nreq + 1
    /\ UNCHANGED <<seq, dbNow, appNow, pc, req, cur>>

\* DELETE /api/v1/todos/{id:[0-9]+} as routed
DeleteRequest(w, seg) ==
    \/ /\ Accepts(w)
       /\ ~MatchesIdPattern(seg)
       /\ NoRoute(w, "DELETE", seg)
    \/ /\ Accepts(w)
       /\ MatchesIdPattern(seg)
       /\ ~ParseInt(seg).ok
       /\ InvalidID(w, "delete", seg)
    \/ /\ Accepts(w)
       /\ MatchesIdPattern(seg)
       /\ ParseInt(seg).ok
       /\ DeleteTodo(w, ParseInt(seg).val)

\* the storage engine's clock advances
TickDB ==
    /\ dbNow < MaxTime
    /\ dbNow' = dbNow + 1
    /\ UNCHANGED <<todos, seq, appNow, pc, req, cur, resp, last, prev, nreq>>

\* the application's clock advances
TickApp ==
    /\ appNow < MaxTime
    /\ appNow' = appNow + 1
    /\ UNCHANGED <<todos, seq, dbNow, pc, req, cur, resp, last, prev, nreq>>

Next ==
    \/ \E w \in Workers : GetAllTodos(w)
    \/ \E w \in Workers, seg \in PathSegs : GetRequest(w, seg)
    \/ \E w \in Workers : CreateTodoUndecodable(w)
    \/ \E w \in Workers, body \in Bodies : CreateRequest(w, body)
    \/ \E w \in Workers, seg \in PathSegs : UpdateRequest(w, seg)
    \/ \E w \in Workers : UpdateTodoWrite(w)
    \/ \E w \in Workers, seg \in PathSegs : DeleteRequest(w, seg)
    \/ TickDB
    \/ TickApp

Spec == Init /\ [][Next]_vars

\* the todos table with no row left
NoRows == [i \in {} |-> SeedRows[i]]

\* the service after Deletes have removed the three seed rows
InitEmptied ==
    /\ todos = NoRows
    /\ seq = SeedCount
    /\ dbNow = SeedTime
    /\ appNow = SeedTime
    /\ pc = [w \in Workers |-> "idle"]
    /\ req = [w \in Workers |-> NoReq]
    /\ cur = [w \in Workers |-> Nil]
    /\ resp = [w \in Workers |-> NoResp]
    /\ last = NoStep
    /\ prev = NoStep
    /\ nreq = 0

SpecEmptied == InitEmptied /\ [][Next]_vars

TypeOK ==
    /\ seq \in SeedCount..MaxId
    /\ DOMAIN todos \subseteq 1..seq
    /\ dbNow \in 0..MaxTime
    /\ appNow \in 0..MaxTime
    /\ \A w \in Workers : pc[w] \in {"idle", "update_write"}
    /\ nreq \in 0..MaxReqs

\* ---- properties ----

\* w is between the two statements of its Update and no other request has
\* run since its read
Alone(w) ==
    /\ pc[w] = "update_write"
    /\ last.w = w
    /\ last.op = "update_read"

\* the last handler step was the write of an Update that no request overlapped
\* and that found its row
LastUpdateAlone ==
    /\ last.op = "update_write"
    /\ prev.op = "update_read"
    /\ prev.w = last.w
    /\ last.before # <<>>
    /\ last.id \in DOMAIN todos
    /\ resp[last.w].op = "update"
    /\ resp[last.w].status = StatusOK

\* C1: in every reachable state every stored task has completed_at
\* non-NULL if and only if completed is true.
C1_CompletedAtIffCompleted ==
    \A id \in DOMAIN todos : (todos[id].completed_at # <<>>) <=> todos[id].completed

\* two overlapping Updates have both written the same task, the later one
\* changing its completed flag
C1_Witness ==
    /\ last.op = "update_write"
    /\ prev.op = "update_write"
    /\ prev.w # last.w
    /\ prev.id = last.id
    /\ last.before # <<>>
    /\ last.id \in DOMAIN todos
    /\ last.before[1].completed # todos[last.id].completed

\* C2 as stated: under any interleaving, a step changes the stored
\* completed_at of a task only if the same step changes its stored completed.
C2_CompletedAtOnlyWithCompleted ==
    [][\A id \in DOMAIN todos \cap DOMAIN todos' :
          todos'[id].completed_at # todos[id].completed_at
              => todos'[id].completed # todos[id].completed]_vars

\* C2 amended: the write of an Update whose task still has the completed and
\* completed_at that the Update read changes the stored completed_at only if
\* it changes the stored completed.
C2_CompletedAtOnlyWithCompletedSinceRead ==
    [][\A w \in Workers :
          (/\ UpdateTodoWrite(w)
           /\ req[w].id \in DOMAIN todos
           /\ ScanTodo(todos[req[w].id]).Completed = CurrentTodo(w).Completed
           /\ ScanTodo(todos[req[w].id]).CompletedAt = CurrentTodo(w).CompletedAt)
          => (todos'[req[w].id].completed_at # todos[req[w].id].completed_at
                 => todos'[req[w].id].completed # todos[req[w].id].completed)]_vars

\* an Update that nothing overlapped has changed completed_at
C2_Witness ==
    /\ LastUpdateAlone
    /\ todos[last.id].completed_at # last.before[1].completed_at
    /\ todos[last.id].completed # last.before[1].completed

\* C3: an Update that no request overlaps and whose payload provides a
\* completed different from the stored one answers 200, and the returned and
\* the stored task have completed = true with a completed_at when the new
\* value is true, completed = false without completed_at when it is false.
C3_ToggleSetsOrClears ==
    [][\A w \in Workers :
          (/\ UpdateTodoWrite(w)
           /\ Alone(w)
           /\ req[w].id \in DOMAIN todos
           /\ req[w].todo.Completed # Nil
           /\ req[w].todo.Completed[1] # todos[req[w].id].completed)
          => LET r == resp'[w]
                 row == todos'[req[w].id]
             IN  /\ r.status = StatusOK
                 /\ r.todo # Nil
                 /\ r.todo[1].ID = req[w].id
                 /\ IF req[w].todo.Completed[1]
                    THEN /\ r.todo[1].Completed
                         /\ r.todo[1].CompletedAt # Nil
                         /\ row.completed
                         /\ row.completed_at # <<>>
                    ELSE /\ ~r.todo[1].Completed
                         /\ r.todo[1].CompletedAt = Nil
                         /\ ~row.completed
                         /\ row.completed_at = <<>>]_vars

\* an Update that nothing overlapped has turned a completed task open
C3_Witness ==
    /\ LastUpdateAlone
    /\ req[last.w].todo.Completed = Ptr(FALSE)
    /\ last.before[1].completed
    /\ ~resp[last.w].todo[1].Completed
    /\ resp[last.w].todo[1].CompletedAt = Nil

\* C4: an Update that no request overlaps and whose payload omits completed
\* or repeats the stored value leaves the stored completed and completed_at
\* as they were, whatever title and description it carries.
C4_NoToggleKeepsCompletion ==
    [][\A w \in Workers :
          (/\ UpdateTodoWrite(w)
           /\ Alone(w)
           /\ req[w].id \in DOMAIN todos
           /\ \/ req[w].todo.Completed = Nil
              \/ req[w].todo.Completed[1] = todos[req[w].id].completed)
          => /\ req[w].id \in DOMAIN todos'
             /\ todos'[req[w].id].completed = todos[req[w].id].completed
             /\ todos'[req[w].id].completed_at = todos[req[w].id].completed_at]_vars

\* an Update that nothing overlapped has repeated completed = true on a
\* completed task and changed its title
C4_Witness ==
    /\ LastUpdateAlone
    /\ req[last.w].todo.Completed = Ptr(TRUE)
    /\ req[last.w].todo.Title # Nil
    /\ last.before[1].completed
    /\ last.before[1].title # todos[last.id].title
    /\ todos[last.id].completed_at = last.before[1].completed_at

\* C5: after an Update that no request overlaps, title and description each
\* equal the payload value when the field is provided (the empty string
\* included) and the previously stored value when it is omitted.
C5_ProvidedOrKept ==
    [][\A w \in Workers :
          (/\ UpdateTodoWrite(w)
           /\ Alone(w)
           /\ req[w].id \in DOMAIN todos)
          => LET t == req[w].todo
                 old == todos[req[w].id]
                 new == todos'[req[w].id]
                 r == resp'[w]
             IN  /\ new.title = IF t.Title # Nil THEN t.Title[1] ELSE old.title
                 /\ new.description =
                        IF t.Description # Nil THEN t.Description[1] ELSE old.description
                 /\ r.todo # Nil
                 /\ r.todo[1].Title = new.title
                 /\ r.todo[1].Description = new.description]_vars

\* an Update that nothing overlapped has provided the empty title and omitted
\* the description
C5_Witness ==
    /\ LastUpdateAlone
    /\ req[last.w].todo.Title = Ptr("")
    /\ req[last.w].todo.Description = Nil
    /\ todos[last.id].title = ""
    /\ last.before[1].title # ""
    /\ todos[last.id].description = last.before[1].description
    /\ todos[last.id].description # ""

\* C6: the write of an Update is computed from the row as the Update read it:
\* it answers 200 and every field its payload omits is stored with the value
\* read, whatever the task holds at the write.  Two overlapping Updates to one
\* id can therefore both succeed while the later write puts a field the
\* earlier one changed back to its old value (C6_Witness).
C6_WriteFromRead ==
    [][\A w \in Workers :
          (UpdateTodoWrite(w) /\ req[w].id \in DOMAIN todos)
          => LET t == req[w].todo
                 c == cur[w][1]
                 new == todos'[req[w].id]
             IN  /\ resp'[w].op = "update"
                 /\ resp'[w].status = StatusOK
                 /\ t.Title = Nil => new.title = c.Title
                 /\ t.Description = Nil => new.description = c.Description
                 /\ t.Completed = Nil => ScanTodo(new).Completed = c.Completed
                 /\ t.Completed = Nil => ScanTodo(new).CompletedAt = c.CompletedAt]_vars

\* both reads came before either write, both Updates answered 200, the first
\* write changed the title, the second payload has no title, and the title is
\* the seeded one again
C6_Witness ==
    /\ last.op = "update_write"
    /\ prev.op = "update_write"
    /\ prev.w # last.w
    /\ prev.id = last.id
    /\ resp[prev.w].op = "update"
    /\ resp[prev.w].status = StatusOK
    /\ resp[last.w].op = "update"
    /\ resp[last.w].status = StatusOK
    /\ req[prev.w].todo.Title # Nil
    /\ resp[prev.w].todo[1].Title = req[prev.w].todo.Title[1]
    /\ req[last.w].todo.Title = Nil
    /\ last.before # <<>>
    /\ last.before[1].title = req[prev.w].todo.Title[1]
    /\ prev.before # <<>>
    /\ prev.before[1].title # last.before[1].title
    /\ last.id \in DOMAIN todos
    /\ todos[last.id].title = prev.before[1].title
    /\ resp[last.w].todo[1].Title = prev.before[1].title

\* C7: a Get or an Update whose id has no stored task answers 404, never
\* 500, and leaves the store unchanged, in every interleaving, the one where
\* a Delete removes the task between the read and the write of an Update
\* included.
C7_MissingIdIsNotFound ==
    [][\A w \in Workers :
          /\ \A id \in ReqIds :
                (GetTodo(w, id) /\ id \notin DOMAIN todos)
                => (resp'[w].status = StatusNotFound /\ todos' = todos)
          /\ \A id \in ReqIds :
                ((\E body \in Bodies : UpdateTodoRead(w, id, body)) /\ id \notin DOMAIN todos)
                => (resp'[w].status = StatusNotFound /\ todos' = todos)
          /\ (UpdateTodoWrite(w) /\ req[w].id \notin DOMAIN todos)
                => (resp'[w].status = StatusNotFound /\ todos' = todos)]_vars

\* C8: a successful Create stores and returns a task with an id never
\* assigned before, the title and description of the request (the empty
\* string for an omitted description), completed = false, no completed_at
\* and created_at = updated_at.
C8_CreateStoresNewTask ==
    [][\A w \in Workers, body \in Bodies :
          CreateTodo(w, body)
          => LET r == resp'[w]
             IN  /\ r.status = StatusCreated
                 /\ r.todo # Nil
                 /\ r.todo[1].ID > seq
                 /\ r.todo[1].ID \notin DOMAIN todos
                 /\ r.todo[1].ID \in DOMAIN todos'
                 /\ body.title # Nil
                 /\ r.todo[1].Title = body.title[1]
                 /\ r.todo[1].Title # ""
                 /\ r.todo[1].Description =
                        IF body.description = Nil THEN "" ELSE body.description[1]
                 /\ ~r.todo[1].Completed
                 /\ r.todo[1].CompletedAt = Nil
                 /\ r.todo[1].CreatedAt = r.todo[1].UpdatedAt
                 /\ ScanTodo(todos'[r.todo[1].ID]) = r.todo[1]
                 /\ todos'[r.todo[1].ID].completed_at = <<>>
                 /\ \A i \in DOMAIN todos : todos'[i] = todos[i]]_vars

\* a Create without description has answered 201 after both clocks advanced
C8_Witness ==
    /\ last.op = "create"
    /\ resp[last.w].op = "create"
    /\ resp[last.w].status = StatusCreated
    /\ resp[last.w].todo[1].ID = last.id
    /\ resp[last.w].todo[1].Description = ""
    /\ resp[last.w].todo[1].CreatedAt > SeedTime
    /\ last.id \in DOMAIN todos

\* C9: a GetTodo on the id a Create has just returned, with no request in
\* between, answers 200 with a task equal in every field to the one Create
\* returned.
C9_CreateThenGet ==
    [][\A w \in Workers, id \in ReqIds :
          (GetTodo(w, id) /\ last.op = "create" /\ last.id = id)
          => /\ resp'[w].status = StatusOK
             /\ resp[last.w].op = "create"
             /\ resp'[w].todo = resp[last.w].todo]_vars

\* a Get has followed the Create of its id and answered 200
C9_Witness ==
    /\ last.op = "get"
    /\ prev.op = "create"
    /\ prev.id = last.id
    /\ resp[last.w].op = "get"
    /\ resp[last.w].status = StatusOK
    /\ resp[last.w].todo[1].ID = last.id
    /\ resp[last.w].todo[1].Description # ""

\* C10: a Delete answers 204 and leaves no task with its id, removing
\* exactly that task when there is one and changing nothing when there is
\* none; a GetTodo on that id right after it answers 404.
C10_DeleteThenGet ==
    [][\A w \in Workers, id \in ReqIds :
          /\ DeleteTodo(w, id)
             => /\ resp'[w].status = StatusNoContent
                /\ id \notin DOMAIN todos'
                /\ DOMAIN todos' = DOMAIN todos \ {id}
                /\ \A i \in DOMAIN todos' : todos'[i] = todos[i]
                /\ id \notin DOMAIN todos => todos' = todos
          /\ (GetTodo(w, id) /\ last.op = "delete" /\ last.id = id)
             => /\ resp'[w].status = StatusNotFound
                /\ todos' = todos]_vars

\* a Get has followed the Delete of an existing task and answered 404
C10_Witness ==
    /\ last.op = "get"
    /\ prev.op = "delete"
    /\ prev.id = last.id
    /\ prev.before # <<>>
    /\ resp[last.w].op = "get"
    /\ resp[last.w].status = StatusNotFound

C12_EmptyListIsArray ==
    [][\A w \in Workers :
          (GetAllTodos(w) /\ DOMAIN todos = {})
          => /\ resp'[w].status = StatusOK
             /\ resp'[w].list.kind = "array"
             /\ resp'[w].list.items = <<>>]_vars

\* a segment with a character that is not a digit
NonNumeric(seg) == \E i \in 1..Len(seg) : seg[i] \notin Digits

\* C13 as stated: a GET of one task whose id segment is not numeric is answered
\* 400 by GetTodo, and the store is left as it was.
C13_NonNumericIdIsBadRequest ==
    [][\A w \in Workers, seg \in PathSegs :
          (GetRequest(w, seg) /\ NonNumeric(seg))
          => /\ resp'[w].op = "get"
             /\ resp'[w].status = StatusBadRequest
             /\ todos' = todos
             /\ seq' = seq]_vars

\* C13 amended: a GET whose id segment is not all digits matches no route, the
\* router answers 404 and GetTodo does not run; GetTodo answers 400 exactly for
\* the all-digit segments beyond int64; the store is left as it was in both.
C13_NonNumericIdIsNoRoute ==
    [][\A w \in Workers, seg \in PathSegs :
          GetRequest(w, seg)
          => /\ NonNumeric(seg)
                => /\ resp'[w].op = "router"
                   /\ resp'[w].status = StatusNotFound
                   /\ todos' = todos
                   /\ seq' = seq
             /\ (resp'[w].op = "get" /\ resp'[w].status = StatusBadRequest)
                <=> (~NonNumeric(seg) /\ DigitsGreater(seg, MaxInt64Digits))
             /\ resp'[w].status = StatusBadRequest
                => /\ todos' = todos
                   /\ seq' = seq]_vars

\* a GET with a non-numeric id segment was answered 404 by the router, after a
\* request with an id beyond int64 was answered 400 by its handler
C13_Witness ==
    /\ last.op = "GET"
    /\ resp[last.w].op = "router"
    /\ resp[last.w].status = StatusNotFound
    /\ prev.op = "invalid_id"
    /\ todos = SeedRows

\* C14: a create whose body does not decode, or whose title is omitted or
\* empty, is answered 400 and stores nothing.
C14_CreateWithoutTitleIsBadRequest ==
    [][\A w \in Workers :
          /\ CreateTodoUndecodable(w)
             => /\ resp'[w].status = StatusBadRequest
                /\ todos' = todos
                /\ seq' = seq
          /\ \A body \in Bodies :
                (CreateRequest(w, body) /\ (body.title = Nil \/ body.title = Ptr("")))
                => /\ resp'[w].op = "create"
                   /\ resp'[w].status = StatusBadRequest
                   /\ todos' = todos
                   /\ seq' = seq]_vars

\* a create without a title was refused after a create with an undecodable
\* body was refused, and nothing was stored
C14_Witness ==
    /\ prev.op = "create_undecodable"
    /\ last.op = "create_invalid"
    /\ resp[last.w].op = "create"
    /\ resp[last.w].status = StatusBadRequest
    /\ todos = SeedRows
    /\ seq = SeedCount

\* C15: the write of an Update that no request overlapped and that turns
\* completed from false to true stores and returns a completed_at no earlier
\* than the updated_at the task had before.
C15_CompletedAtNotBeforeUpdatedAt ==
    [][\A w \in Workers :
          (/\ UpdateTodoWrite(w)
           /\ Alone(w)
           /\ req[w].id \in DOMAIN todos
           /\ ~todos[req[w].id].completed
           /\ todos'[req[w].id].completed)
          => /\ todos'[req[w].id].completed_at # <<>>
             /\ todos'[req[w].id].completed_at[1] >= todos[req[w].id].updated_at
             /\ resp'[w].todo # Nil
             /\ resp'[w].todo[1].CompletedAt = todos'[req[w].id].completed_at]_vars

\* C16: the write of an Update for id X keeps the set of stored ids, keeps the
\* id and created_at of task X, and leaves every task with another id as it was.
C16_UpdateFrame ==
    [][\A w \in Workers :
          UpdateTodoWrite(w)
          => /\ DOMAIN todos' = DOMAIN todos
             /\ \A i \in DOMAIN todos :
                   /\ todos'[i].id = i
                   /\ todos[i].id = i
                   /\ todos'[i].created_at = todos[i].created_at
                   /\ i # req[w].id => todos'[i] = todos[i]]_vars

\* two Updates overlapped, the later write changed its task, and that task has
\* the created_at it had before while the storage clock has moved on
C16_Witness ==
    /\ last.op = "update_write"
    /\ prev.op = "update_write"
    /\ prev.w # last.w
    /\ last.before # <<>>
    /\ last.id \in DOMAIN todos
    /\ todos[last.id] # last.before[1]
    /\ todos[last.id].created_at = last.before[1].created_at
    /\ todos[last.id].updated_at > todos[last.id].created_at

\* C17 as stated: every stored task has a non-empty title.
C17_TitlesNonEmpty == \A id \in DOMAIN todos : todos[id].title # ""

\* C17 amended: a task is stored with an empty title only by the write of an
\* Update for it whose payload provided the empty title, or omitted the title
\* after reading an empty one; Create never stores an empty title, and an
\* Update whose payload provides the empty title stores it.
C17_EmptyTitleOnlyByUpdate ==
    [][/\ \A id \in DOMAIN todos' :
             (todos'[id].title = "" /\ (id \notin DOMAIN todos \/ todos[id].title # ""))
             => \E w \in Workers :
                   /\ UpdateTodoWrite(w)
                   /\ req[w].id = id
                   /\ \/ req[w].todo.Title = Ptr("")
                      \/ req[w].todo.Title = Nil /\ cur[w][1].Title = ""
       /\ \A w \in Workers :
             (UpdateTodoWrite(w) /\ req[w].id \in DOMAIN todos /\ req[w].todo.Title = Ptr(""))
             => todos'[req[w].id].title = ""]_vars

\* an Update whose payload provided the empty title has emptied a title
C17_Witness ==
    /\ last.op = "update_write"
    /\ last.before # <<>>
    /\ last.before[1].title # ""
    /\ last.id \in DOMAIN todos
    /\ todos[last.id].title = ""
    /\ req[last.w].todo.Title = Ptr("")

\* C18: an id that was assigned and is no longer stored is never stored again;
\* a Create is assigned an id above every id assigned before.
C18_DeletedIdStaysDeleted ==
    [][/\ \A id \in 1..MaxId :
             (id <= seq /\ id \notin DOMAIN todos)
             => (id <= seq' /\ id \notin DOMAIN todos')
       /\ \A w \in Workers, body \in Bodies :
             CreateTodo(w, body)
             => /\ seq' > seq
                /\ DOMAIN todos' = DOMAIN todos \cup {seq'}]_vars

\* a Delete ran between the read and the write of an Update for the same id,
\* and after the write the id is not stored
C18_Witness ==
    /\ last.op = "update_write"
    /\ prev.op = "delete"
    /\ prev.id = last.id
    /\ prev.before # <<>>
    /\ last.id <= seq
    /\ last.id \notin DOMAIN todos
====
